---- MODULE Spec2Model ----
(***************************************************************************)
(* Model of harvard_arts.py: the paged fetch of artifact records           *)
(* (fetch_harvard_data), their deduplication and split into three row sets *)
(* (process_records), the append into three database tables                *)
(* (insert_into_db) and the Streamlit script whose reruns drive them.      *)
(*                                                                         *)
(* Python values are tagged records, so that 0, "" and None stay distinct  *)
(* values that are all falsy, and 1 and "1" stay unequal.  A dict is a     *)
(* function from its keys; dict.get is Get.  A DataFrame built from a list *)
(* of row dicts is the sequence of its rows.                               *)
(***************************************************************************)
EXTENDS Integers, Sequences, FiniteSets, TLC

VARIABLES
    proc_in,        \* process_records: the argument `records`
    proc_out,       \* process_records: the returned (meta_df, media_df, color_df)
    api,            \* the catalog API: the JSON body served for each page
    fetch,          \* fetch_harvard_data: its locals and the requests it issued
    session_state,  \* st.session_state
    db,             \* the three append-target tables
    ui,             \* what the last script run showed and how it ended
    hist            \* history of the collection runs and persistence attempts

vars == <<proc_in, proc_out, api, fetch, session_state, db, ui, hist>>

----------------------------------------------------------------------------
(* Bounds *)

MaxRecords == 3     \* longest list handed to process_records
MaxPages == 2       \* pages the modelled catalog serves with content
MaxRuns == 3        \* script reruns in one session
MaxSessionPages == 1 \* pages of the catalogs the session's collection runs read

----------------------------------------------------------------------------
(* Python values *)

None == [t |-> "none"]
PyInt(n) == [t |-> "int", v |-> n]
PyStr(s) == [t |-> "str", v |-> s]
PyList(s) == [t |-> "list", v |-> s]

\* Python truth value, as `if obj_id and ...` takes it.
Truthy(x) ==
    CASE x.t = "none" -> FALSE
      [] x.t = "int" -> x.v # 0
      [] x.t = "str" -> x.v # ""
      [] x.t = "list" -> x.v # <<>>

\* dict.get(key): None when the key is absent.
Get(d, key) == IF key \in DOMAIN d THEN d[key] ELSE None

\* dict.get(key, default)
GetOr(d, key, default) == IF key \in DOMAIN d THEN d[key] ELSE default

\* d[key] = value
SetItem(d, key, value) ==
    [k \in DOMAIN d \cup {key} |-> IF k = key THEN value ELSE d[k]]

----------------------------------------------------------------------------
(* process_records *)

\* DedupStep with the later occurrence of an id replacing the earlier one.
DedupStepKeepLast(st, rec) ==
    LET obj_id == Get(rec, "id") IN
    IF Truthy(obj_id)
    THEN [seen |-> st.seen \cup {obj_id},
          unique |-> Append(SelectSeq(st.unique, LAMBDA u : Get(u, "id") # obj_id), rec)]
    ELSE st

\* One iteration of the deduplication loop; st = [seen, unique].
DedupStep(st, rec) ==
    LET obj_id == Get(rec, "id") IN
    IF Truthy(obj_id) /\ obj_id \notin st.seen
    THEN [seen |-> st.seen \cup {obj_id}, unique |-> Append(st.unique, rec)]
    ELSE st

RECURSIVE DedupLoop(_, _)
DedupLoop(st, records) ==
    IF records = <<>> THEN st
    ELSE DedupLoop(DedupStep(st, Head(records)), Tail(records))

Unique(records) == DedupLoop([seen |-> {}, unique |-> <<>>], records).unique

MetaRow(rec) ==
    [id |-> Get(rec, "id"),
     title |-> Get(rec, "title"),
     culture |-> Get(rec, "culture"),
     period |-> Get(rec, "period"),
     century |-> Get(rec, "century"),
     medium |-> Get(rec, "medium"),
     dimensions |-> Get(rec, "dimensions"),
     description |-> Get(rec, "description"),
     department |-> Get(rec, "department"),
     classification |-> Get(rec, "classification"),
     accessionyear |-> Get(rec, "accessionyear"),
     accessionmethod |-> Get(rec, "accessionmethod")]

MediaRow(rec) ==
    [objectid |-> Get(rec, "id"),
     imagecount |-> Get(rec, "imagecount"),
     mediacount |-> Get(rec, "mediacount"),
     colorcount |-> Get(rec, "colorcount"),
     mediarank |-> Get(rec, "rank"),
     datebegin |-> Get(rec, "datebegin"),
     dateend |-> Get(rec, "dateend")]

ColorRow(rec, c) ==
    [objectid |-> Get(rec, "id"),
     color |-> Get(c, "color"),
     spectrum |-> Get(c, "spectrum"),
     hue |-> Get(c, "hue"),
     percent |-> Get(c, "percent"),
     css3 |-> Get(c, "css3")]

\* ColorRowsOf without the loop over the list: its first entry only.
ColorRowsOfFirstOnly(rec) ==
    IF Get(rec, "colors").t = "list" /\ rec["colors"].v # <<>>
    THEN <<ColorRow(rec, rec["colors"].v[1])>>
    ELSE <<>>

\* The color rows one record contributes.
ColorRowsOf(rec) ==
    IF Get(rec, "colors").t = "list"
    THEN [i \in 1..Len(rec["colors"].v) |-> ColorRow(rec, rec["colors"].v[i])]
    ELSE <<>>

RECURSIVE ColorRecords(_)
ColorRecords(unique) ==
    IF unique = <<>> THEN <<>>
    ELSE ColorRowsOf(Head(unique)) \o ColorRecords(Tail(unique))

process_records(records) ==
    LET unique == Unique(records) IN
    [meta_df |-> [i \in 1..Len(unique) |-> MetaRow(unique[i])],
     media_df |-> [i \in 1..Len(unique) |-> MediaRow(unique[i])],
     color_df |-> ColorRecords(unique)]

----------------------------------------------------------------------------
(* fetch_harvard_data *)

HTTP_OK == 200

\* The locals of fetch_harvard_data at the top of `while True`, with the
\* requests issued so far; done = the loop was left and `records` returned.
FetchInit(classification) ==
    [classification |-> classification,
     page |-> 1,
     records |-> <<>>,
     requests |-> <<>>,
     shown |-> <<>>,
     done |-> FALSE]

\* `for rec in recs: rec["classification_name"] = classification`
TagAll(recs, classification) ==
    [i \in 1..Len(recs) |-> SetItem(recs[i], "classification_name", classification)]

\* FetchStep with `page > pages` for `page >= pages`.
FetchStepPastLastPage(st, r) ==
    LET st1 == [st EXCEPT !.requests = Append(@, [page |-> st.page, status |-> r.status])]
    IN  IF r.status # HTTP_OK
        THEN [st1 EXCEPT !.shown = Append(@, "error: Error fetching data from API."),
                         !.done = TRUE]
        ELSE LET data == r.json
                 recs == GetOr(data, "records", <<>>)
             IN  IF recs = <<>>
                 THEN [st1 EXCEPT !.done = TRUE]
                 ELSE LET st2 == [st1 EXCEPT !.records = @ \o TagAll(recs, st.classification)]
                      IN  IF st.page > GetOr(GetOr(data, "info", <<>>), "pages", 1)
                          THEN [st2 EXCEPT !.done = TRUE]
                          ELSE [st2 EXCEPT !.page = @ + 1]

\* FetchStep returning nothing, instead of the pages so far, on an error.
FetchStepDropOnError(st, r) ==
    LET st1 == [st EXCEPT !.requests = Append(@, [page |-> st.page, status |-> r.status])]
    IN  IF r.status # HTTP_OK
        THEN [st1 EXCEPT !.shown = Append(@, "error: Error fetching data from API."),
                         !.records = <<>>,
                         !.done = TRUE]
        ELSE LET data == r.json
                 recs == GetOr(data, "records", <<>>)
             IN  IF recs = <<>>
                 THEN [st1 EXCEPT !.done = TRUE]
                 ELSE LET st2 == [st1 EXCEPT !.records = @ \o TagAll(recs, st.classification)]
                      IN  IF st.page >= GetOr(GetOr(data, "info", <<>>), "pages", 1)
                          THEN [st2 EXCEPT !.done = TRUE]
                          ELSE [st2 EXCEPT !.page = @ + 1]

\* One iteration of `while True`, given the response r = [status, json] to
\* the request for page st.page.
FetchStep(st, r) ==
    LET st1 == [st EXCEPT !.requests = Append(@, [page |-> st.page, status |-> r.status])]
    IN  IF r.status # HTTP_OK
        THEN [st1 EXCEPT !.shown = Append(@, "error: Error fetching data from API."),
                         !.done = TRUE]
        ELSE LET data == r.json
                 recs == GetOr(data, "records", <<>>)
             IN  IF recs = <<>>
                 THEN [st1 EXCEPT !.done = TRUE]
                 ELSE LET st2 == [st1 EXCEPT !.records = @ \o TagAll(recs, st.classification)]
                      IN  IF st.page >= GetOr(GetOr(data, "info", <<>>), "pages", 1)
                          THEN [st2 EXCEPT !.done = TRUE]
                          ELSE [st2 EXCEPT !.page = @ + 1]

----------------------------------------------------------------------------
(* The catalog API, as the program sees it *)

Color1 == [color |-> PyStr("#c8c8c8"), spectrum |-> PyStr("#8c5fa8"), hue |-> PyStr("Grey"),
           percent |-> PyInt(60), css3 |-> PyStr("#c0c0c0")]
Color2 == [color |-> PyStr("#323232"), hue |-> PyStr("Black")]

Rec55a == [id |-> PyInt(55), title |-> PyStr("Head of a Man"), culture |-> PyStr("Byzantine"),
           colors |-> PyList(<<Color1, Color2>>)]
Rec55b == [id |-> PyInt(55), title |-> PyStr("Head of a Woman")]
Rec56 == [id |-> PyInt(56), title |-> PyStr("Bowl"), imagecount |-> PyInt(1),
          colors |-> PyList(<<Color2>>)]
Rec57 == [id |-> PyStr("57"), title |-> PyStr("Coin"), colors |-> PyStr("n/a")]
Rec58 == [id |-> PyInt(58), colors |-> PyList(<<>>)]
RecZero == [id |-> PyInt(0), title |-> PyStr("Zero"), colors |-> PyList(<<Color1>>)]
RecEmptyId == [id |-> PyStr(""), title |-> PyStr("Blank")]
RecNullId == [id |-> None, title |-> PyStr("Null"), colors |-> PyList(<<Color1>>)]
RecNoId == [title |-> PyStr("Untitled"), colors |-> None]

RawRecords == {Rec55a, Rec55b, Rec56, Rec57, Rec58, RecZero, RecEmptyId, RecNullId, RecNoId}

Classifications == {PyStr("Paintings"), PyStr("Coins")}

\* The record lists a page can carry.
PageRecords == {<<>>, <<Rec55a, RecZero>>, <<Rec55b>>, <<Rec56, Rec55b>>, <<RecNoId>>}

\* The JSON bodies a page request can be answered with: `records` and
\* `info.pages` each present or not.
Bodies ==
    {[records |-> rs, info |-> [pages |-> n]] : rs \in PageRecords, n \in 0..(MaxPages + 1)}
    \cup {[records |-> rs] : rs \in PageRecords}
    \cup {[info |-> [pages |-> n]] : n \in 0..(MaxPages + 1)}

Catalogs == [1..MaxPages -> Bodies]

\* The body served for page k of catalog a.  Past the pages the model gives
\* content to, the catalog serves an empty record list.
ApiBody(a, k) == IF k \in DOMAIN a THEN a[k] ELSE [records |-> <<>>]

Statuses == {HTTP_OK, 500}

\* fetch_harvard_data run to its return against catalog a, the request for
\* page k answered with status[k].
RECURSIVE FetchLoop(_, _, _)
FetchLoop(st, a, status) ==
    IF st.done THEN st
    ELSE FetchLoop(FetchStep(st, [status |-> status[st.page], json |-> ApiBody(a, st.page)]),
                   a, status)

fetch_harvard_data(classification, a, status) ==
    FetchLoop(FetchInit(classification), a, status)

----------------------------------------------------------------------------
(* insert_into_db *)

Tables == <<"artifact_metadata", "artifact_media", "artifact_colors">>

\* The session-state key of the frame each table is filled from.
FrameKeys == <<"meta_df", "media_df", "color_df">>

\* DataFrame.empty, of a frame built from a list of row dicts.
DfEmpty(df) == df = <<>>

\* ToSqlStep without the `if not df.empty` test.
ToSqlStepAlways(st, table, df, flt) ==
    IF st.raised_at # "none" THEN st
    ELSE IF flt.at = table
    THEN [db |-> [st.db EXCEPT ![table] = @ \o SubSeq(df, 1, flt.kept)],
          issued |-> Append(st.issued, table),
          raised_at |-> table]
    ELSE [db |-> [st.db EXCEPT ![table] = @ \o df],
          issued |-> Append(st.issued, table),
          raised_at |-> "none"]

\* `if not df.empty: df.to_sql(table, if_exists="append")` inside the try
\* block; st = [db, issued, raised_at].  Each to_sql call commits on its
\* own; no transaction spans the three.  flt = [at, kept] is what the
\* database does: the insert into table flt.at raises, flt.kept of its rows
\* staying behind (none on a transactional table).
ToSqlStep(st, table, df, flt) ==
    IF st.raised_at # "none" \/ DfEmpty(df) THEN st
    ELSE IF flt.at = table
    THEN [db |-> [st.db EXCEPT ![table] = @ \o SubSeq(df, 1, flt.kept)],
          issued |-> Append(st.issued, table),
          raised_at |-> table]
    ELSE [db |-> [st.db EXCEPT ![table] = @ \o df],
          issued |-> Append(st.issued, table),
          raised_at |-> "none"]

InsertResult(st) ==
    [db |-> st.db,
     issued |-> st.issued,
     raised_at |-> st.raised_at,
     shown |-> IF st.raised_at = "none"
               THEN <<"success: Data inserted into database successfully.">>
               ELSE <<"error: Error inserting data">>]

\* insert_into_db with one transaction around the three inserts: a failure
\* undoes them all.
insert_into_db_rollback(meta_df, media_df, color_df, d, flt) ==
    LET s0 == [db |-> d, issued |-> <<>>,
               raised_at |-> IF flt.at = "connect" THEN "connect" ELSE "none"]
        s1 == ToSqlStep(s0, "artifact_metadata", meta_df, flt)
        s2 == ToSqlStep(s1, "artifact_media", media_df, flt)
        s3 == ToSqlStep(s2, "artifact_colors", color_df, flt)
    IN  InsertResult(IF s3.raised_at = "none" THEN s3 ELSE [s3 EXCEPT !.db = d])

\* insert_into_db on database d; engine.connect() raises when flt.at is
\* "connect".
insert_into_db(meta_df, media_df, color_df, d, flt) ==
    LET s0 == [db |-> d, issued |-> <<>>,
               raised_at |-> IF flt.at = "connect" THEN "connect" ELSE "none"]
        s1 == ToSqlStep(s0, "artifact_metadata", meta_df, flt)
        s2 == ToSqlStep(s1, "artifact_media", media_df, flt)
        s3 == ToSqlStep(s2, "artifact_colors", color_df, flt)
    IN  InsertResult(s3)

----------------------------------------------------------------------------
(* The script: what a rerun does in each tab *)

\* CollectHandler keeping a color_df already in the session state.
CollectHandlerStaleColors(ss, records) ==
    IF records # <<>>
    THEN LET frames == process_records(records)
         IN  [session_state |->
                 SetItem(SetItem(SetItem(ss,
                     "color_df", GetOr(ss, "color_df", frames.color_df)),
                     "meta_df", frames.meta_df),
                     "media_df", frames.media_df),
              shown |-> <<"success: Collected records">>]
    ELSE [session_state |-> ss, shown |-> <<"warning: No records found.">>]

\* Tab 1 with "Collect data" pressed, after the fetch returned `records`.
CollectHandler(ss, records) ==
    IF records # <<>>
    THEN LET frames == process_records(records)
         IN  [session_state |->
                 SetItem(SetItem(SetItem(ss,
                     "meta_df", frames.meta_df),
                     "media_df", frames.media_df),
                     "color_df", frames.color_df),
              shown |-> <<"success: Collected records">>]
    ELSE [session_state |-> ss, shown |-> <<"warning: No records found.">>]

\* InsertHandler without the `"meta_df" in st.session_state` test.
InsertHandlerNoCheck(ss, d, flt) ==
    insert_into_db(GetOr(ss, "meta_df", <<>>), GetOr(ss, "media_df", <<>>),
                   GetOr(ss, "color_df", <<>>), d, flt)

\* Tab 2 with "Insert into Database" pressed.
InsertHandler(ss, d, flt) ==
    IF "meta_df" \in DOMAIN ss
    THEN insert_into_db(ss["meta_df"], ss["media_df"], ss["color_df"], d, flt)
    ELSE [db |-> d,
          issued |-> <<>>,
          raised_at |-> "none",
          shown |-> <<"error: No data available. Please collect data first in Tab 1.">>]

\* Tab 3, which every rerun executes: connect, execute the selected query,
\* show its result.  q is what the database does with them.  Neither call
\* is inside a try block, so an exception either raises ends the script run.
Tab3(q) ==
    IF q = "ok"
    THEN [shown |-> <<"dataframe: query result">>, ended |-> "completed"]
    ELSE [shown |-> <<>>, ended |-> "uncaught exception"]

----------------------------------------------------------------------------
(* State of the parts a specification does not exercise *)

NotRun == [run |-> FALSE]
NoFetch == [done |-> TRUE]
NoCatalog == <<>>
EmptyDict == [k \in {} |-> None]
EmptyDb == [artifact_metadata |-> <<>>, artifact_media |-> <<>>, artifact_colors |-> <<>>]
NoUi == [shown |-> <<>>, ended |-> "completed"]
NoHist == [runs |-> 0]

----------------------------------------------------------------------------
(* SpecProcess: process_records applied to every bounded record list *)

RECURSIVE SeqsUpTo(_, _)
SeqsUpTo(S, n) ==
    IF n = 0 THEN {<<>>}
    ELSE LET shorter == SeqsUpTo(S, n - 1)
         IN  shorter \cup {Append(s, x) : s \in shorter, x \in S}

InitProcess ==
    /\ proc_in \in SeqsUpTo(RawRecords, MaxRecords)
    /\ proc_out = NotRun
    /\ api = NoCatalog
    /\ fetch = NoFetch
    /\ session_state = EmptyDict
    /\ db = EmptyDb
    /\ ui = NoUi
    /\ hist = NoHist

ProcessRecords ==
    /\ proc_out = NotRun
    /\ proc_out' = [run |-> TRUE, unique |-> Unique(proc_in),
                     frames |-> process_records(proc_in)]
    /\ UNCHANGED <<proc_in, api, fetch, session_state, db, ui, hist>>

NextProcess == ProcessRecords

SpecProcess == InitProcess /\ [][NextProcess]_vars

----------------------------------------------------------------------------
(* SpecFetch: fetch_harvard_data against every bounded catalog *)

InitFetch ==
    /\ api \in Catalogs
    /\ \E c \in Classifications : fetch = FetchInit(c)
    /\ proc_in = <<>>
    /\ proc_out = NotRun
    /\ session_state = EmptyDict
    /\ db = EmptyDb
    /\ ui = NoUi
    /\ hist = NoHist

\* requests.get for the current page, and the loop iteration on its response.
RequestPage ==
    /\ ~fetch.done
    /\ \E status \in Statuses :
          fetch' = FetchStep(fetch, [status |-> status, json |-> ApiBody(api, fetch.page)])
    /\ UNCHANGED <<proc_in, proc_out, api, session_state, db, ui, hist>>

NextFetch == RequestPage

SpecFetch == InitFetch /\ [][NextFetch]_vars

----------------------------------------------------------------------------
(* Spec: a session of script reruns *)

QueryOutcomes == {"ok", "connect_error", "query_error"}

\* The catalogs the session's collection runs read, and what a fetch can
\* return from them: the records, and the error it showed.
SessionPageRecords == {<<>>, <<Rec55a, RecZero>>, <<Rec55b>>, <<RecNoId>>}

SessionBodies ==
    {[records |-> rs, info |-> [pages |-> n]] :
        rs \in SessionPageRecords, n \in 1..(MaxSessionPages + 1)}
    \cup {[records |-> rs] : rs \in SessionPageRecords}

SessionCatalogs == [1..MaxSessionPages -> SessionBodies]

FetchOutcomes ==
    {[records |-> f.records, shown |-> f.shown] :
        f \in {fetch_harvard_data(c, a, status) :
                  c \in Classifications,
                  a \in SessionCatalogs,
                  status \in [1..(MaxSessionPages + 1) -> Statuses]}}

\* What the database can do to one persistence attempt with the frames in ss.
Faults(ss) ==
    {[at |-> "none", kept |-> 0], [at |-> "connect", kept |-> 0]}
    \cup UNION {{[at |-> Tables[i], kept |-> n] :
                    n \in 0..(Len(GetOr(ss, FrameKeys[i], <<>>)) - 1)} :
                i \in 1..Len(Tables)}

Init ==
    /\ session_state = EmptyDict
    /\ db = EmptyDb
    /\ ui = [shown |-> <<>>, ended |-> "completed", query |-> "ok"]
    /\ hist = [runs |-> 0, action |-> "none", collections |-> 0,
               last_fetch |-> <<>>, stored_fetch |-> <<>>,
               issued |-> <<>>, raised_at |-> "none"]
    /\ proc_in = <<>>
    /\ proc_out = NotRun
    /\ api = NoCatalog
    /\ fetch = NoFetch

\* A rerun with "Collect data" pressed.
CollectData ==
    /\ hist.runs < MaxRuns
    /\ \E f \in FetchOutcomes, q \in QueryOutcomes :
          LET h == CollectHandler(session_state, f.records)
              t == Tab3(q)
          IN  /\ session_state' = h.session_state
              /\ ui' = [shown |-> f.shown \o h.shown \o t.shown, ended |-> t.ended,
                        query |-> q]
              /\ hist' = [hist EXCEPT !.runs = @ + 1,
                                      !.action = "collect",
                                      !.collections = @ + 1,
                                      !.last_fetch = f.records,
                                      !.stored_fetch =
                                          IF f.records # <<>> THEN f.records ELSE @,
                                      !.issued = <<>>,
                                      !.raised_at = "none"]
    /\ UNCHANGED <<db, proc_in, proc_out, api, fetch>>

\* A rerun with "Insert into Database" pressed.
InsertIntoDatabase ==
    /\ hist.runs < MaxRuns
    /\ \E flt \in Faults(session_state), q \in QueryOutcomes :
          LET h == InsertHandler(session_state, db, flt)
              t == Tab3(q)
          IN  /\ db' = h.db
              /\ ui' = [shown |-> h.shown \o t.shown, ended |-> t.ended, query |-> q]
              /\ hist' = [hist EXCEPT !.runs = @ + 1,
                                      !.action = "insert",
                                      !.issued = h.issued,
                                      !.raised_at = h.raised_at]
    /\ UNCHANGED <<session_state, proc_in, proc_out, api, fetch>>

\* A rerun with no button pressed: another query chosen in tab 3.
ChooseQuery ==
    /\ hist.runs < MaxRuns
    /\ \E q \in QueryOutcomes :
          LET t == Tab3(q)
          IN  ui' = [shown |-> t.shown, ended |-> t.ended, query |-> q]
    /\ hist' = [hist EXCEPT !.runs = @ + 1, !.action = "none",
                            !.issued = <<>>, !.raised_at = "none"]
    /\ UNCHANGED <<session_state, db, proc_in, proc_out, api, fetch>>

Next == CollectData \/ InsertIntoDatabase \/ ChooseQuery

Spec == Init /\ [][Next]_vars

----------------------------------------------------------------------------
(* Claims about process_records (SpecProcess) *)

IdOf(rec) == Get(rec, "id")

\* C1: the deduplicated list holds no two records with the same identifier,
\* each kept record is the first occurrence of its identifier in the input
\* (a later record with that id and other field values is discarded), and
\* the kept records are in the order of their first occurrence.
C1_DedupFirstOccurrence ==
    proc_out.run =>
        LET inp == proc_in
            out == proc_out.unique
        IN  /\ \A i, j \in 1..Len(out) : i # j => IdOf(out[i]) # IdOf(out[j])
            /\ \E f \in [1..Len(out) -> 1..Len(inp)] :
                  /\ \A k \in 1..Len(out) :
                        /\ out[k] = inp[f[k]]
                        /\ \A j \in 1..(f[k] - 1) : IdOf(inp[j]) # IdOf(inp[f[k]])
                  /\ \A k, l \in 1..Len(out) : k < l => f[k] < f[l]

\* Witness of C1: the id 55 comes twice with different field values, with
\* another record in between, and the first version is the one kept.
C1_Witness ==
    /\ proc_out.run
    /\ proc_in = <<Rec55a, Rec56, Rec55b>>
    /\ proc_out.unique = <<Rec55a, Rec56>>

\* The identifiers present among the records: every value of the id field
\* but an absent or null one.
DistinctIds(records) == {IdOf(records[i]) : i \in 1..Len(records)} \ {None}

\* C2: the number of metadata rows equals the number of media rows equals the
\* number of distinct identifiers present among the input records, whatever
\* value an identifier has (0 and the empty string included).
C2_RowCountsEqualDistinctIds ==
    proc_out.run =>
        /\ Len(proc_out.frames.meta_df) = Len(proc_out.frames.media_df)
        /\ Len(proc_out.frames.meta_df) = Cardinality(DistinctIds(proc_in))

\* The number of color entries of a record: 0 unless its color field is a list.
ColorCount(rec) ==
    IF "colors" \in DOMAIN rec /\ rec["colors"].t = "list" THEN Len(rec["colors"].v) ELSE 0

RECURSIVE SumColorCounts(_)
SumColorCounts(recs) ==
    IF recs = <<>> THEN 0 ELSE ColorCount(Head(recs)) + SumColorCounts(Tail(recs))

\* The record the n-th color row comes from, counting through the records'
\* color lists in order.
RECURSIVE OwnerOfRow(_, _)
OwnerOfRow(recs, n) ==
    IF n <= ColorCount(Head(recs)) THEN Head(recs)
    ELSE OwnerOfRow(Tail(recs), n - ColorCount(Head(recs)))

\* C3: the number of color rows is the sum, over the deduplicated records, of
\* the length of the record's color list (0 when the field is absent or not a
\* list), and each color row carries the id of the record it came from.
C3_ColorRows ==
    proc_out.run =>
        LET color_df == proc_out.frames.color_df
            unique == proc_out.unique
        IN  /\ Len(color_df) = SumColorCounts(unique)
            /\ \A n \in 1..Len(color_df) :
                  color_df[n].objectid = IdOf(OwnerOfRow(unique, n))

\* Witness of C3: a record with two colors, one whose color field is not a
\* list and one with a single color give three color rows.
C3_Witness ==
    /\ proc_out.run
    /\ proc_out.unique = <<Rec55a, Rec57, Rec56>>
    /\ Len(proc_out.frames.color_df) = 3
    /\ proc_out.frames.color_df[3].objectid = PyInt(56)

----------------------------------------------------------------------------
(* Claims about fetch_harvard_data (SpecFetch) *)

\* The page numbers requested so far, in the order of the requests.
RequestedPages == [i \in 1..Len(fetch.requests) |-> fetch.requests[i].page]

AllRequestsOk == \A i \in 1..Len(fetch.requests) : fetch.requests[i].status = HTTP_OK

\* The page count a body reports; a body that reports none counts as 1.
ReportedPages(body) ==
    IF "info" \in DOMAIN body /\ "pages" \in DOMAIN body["info"]
    THEN body["info"]["pages"] ELSE 1

\* The records a body carries.
PageRecs(body) == IF "records" \in DOMAIN body THEN body["records"] ELSE <<>>

\* The records of pages 1..n of the catalog, in page order, as the fetch
\* hands them on: each with its classification_name.
RECURSIVE ConcatPages(_)
ConcatPages(n) ==
    IF n = 0 THEN <<>>
    ELSE LET recs == PageRecs(ApiBody(api, n))
         IN  ConcatPages(n - 1) \o
             [i \in 1..Len(recs) |->
                [k \in DOMAIN recs[i] \cup {"classification_name"} |->
                    IF k = "classification_name" THEN fetch.classification ELSE recs[i][k]]]

OneToN(n) == [i \in 1..n |-> i]

\* C4 as stated: when every page request succeeds, the fetch requests pages
\* 1..P, each once and in order, P being the page count the API reports, and
\* returns the records of all P pages concatenated in page order.
C4_AllPagesFetched ==
    (fetch.done /\ AllRequestsOk) =>
        LET P == ReportedPages(api[1])
        IN  /\ RequestedPages = OneToN(P)
            /\ fetch.records = ConcatPages(P)

\* Every response to pages 1..P reports the page count P >= 1, and each of
\* these pages carries at least one record.
ConsistentNonEmptyCatalog(P) ==
    /\ P >= 1
    /\ \A k \in 1..P :
          /\ ReportedPages(ApiBody(api, k)) = P
          /\ PageRecs(ApiBody(api, k)) # <<>>

\* C4 amended: when every page request succeeds, every response reports the
\* same page count P >= 1 and each of the pages 1..P carries at least one
\* record, the fetch requests pages 1..P, each once and in order, and returns
\* the records of all P pages concatenated in page order.
C4_AllPagesFetchedWhenNonEmpty ==
    (fetch.done /\ AllRequestsOk /\ ConsistentNonEmptyCatalog(ReportedPages(api[1]))) =>
        LET P == ReportedPages(api[1])
        IN  /\ RequestedPages = OneToN(P)
            /\ fetch.records = ConcatPages(P)

\* Witness of C4: two non-empty pages, both fetched with success.
C4_Witness ==
    /\ fetch.done
    /\ AllRequestsOk
    /\ ReportedPages(api[1]) = 2
    /\ ConsistentNonEmptyCatalog(2)
    /\ Len(fetch.requests) = 2
    /\ Len(fetch.records) >= 3

\* C5: a non-success status for page k ends the fetch: no request follows
\* it, and the result is the records of pages 1..k-1 in order (none when
\* k = 1).
C5_PartialResultOnError ==
    \A k \in 1..Len(fetch.requests) :
        fetch.requests[k].status # HTTP_OK =>
            /\ k = Len(fetch.requests)
            /\ fetch.done
            /\ RequestedPages = OneToN(k)
            /\ fetch.records = ConcatPages(k - 1)

\* Witness of C5: page 1 fetched, page 2 refused; page 1's records returned.
C5_Witness ==
    /\ fetch.done
    /\ Len(fetch.requests) = 2
    /\ fetch.requests[2].status # HTTP_OK
    /\ fetch.records # <<>>
    /\ fetch.records = ConcatPages(1)

----------------------------------------------------------------------------
(* Claims about the session (Spec) *)

HasData(ss) == "meta_df" \in DOMAIN ss

\* The three row sets held in session state.
Held(ss) == [meta_df |-> ss["meta_df"], media_df |-> ss["media_df"],
             color_df |-> ss["color_df"]]

\* The row set a table is filled from.
FrameFor(frames, table) ==
    CASE table = "artifact_metadata" -> frames.meta_df
      [] table = "artifact_media" -> frames.media_df
      [] table = "artifact_colors" -> frames.color_df

TableSet == {Tables[i] : i \in 1..Len(Tables)}

IssuedSet(h) == {h.issued[i] : i \in 1..Len(h.issued)}

\* The step is a rerun with "Insert into Database" pressed.
InsertStep == hist'.runs = hist.runs + 1 /\ hist'.action = "insert"

\* C6 as stated: once a collection ran, the row sets held in session state
\* are the ones the most recent collection run produced.
C6_SessionHoldsLastRun ==
    (hist.collections > 0 /\ HasData(session_state)) =>
        Held(session_state) = process_records(hist.last_fetch)

\* C6 amended, the session state: the three row sets are held together, they
\* are held exactly when some collection run fetched a record, and they are
\* the ones produced by the most recent collection run that fetched at least
\* one record.
SessionHoldsLastStoredRun ==
    /\ DOMAIN session_state \in {{}, {"meta_df", "media_df", "color_df"}}
    /\ HasData(session_state) <=> hist.stored_fetch # <<>>
    /\ HasData(session_state) =>
          Held(session_state) = process_records(hist.stored_fetch)

\* C6 amended, the persistence action: an attempt that reports success has
\* appended exactly these three row sets, each to its table, and an attempt
\* that fails has appended nothing but rows of them.
InsertsLastStoredRun ==
    (InsertStep /\ HasData(session_state)) =>
        LET frames == process_records(hist.stored_fetch)
        IN  \A t \in TableSet :
               /\ hist'.raised_at = "none" => db'[t] = db[t] \o FrameFor(frames, t)
               /\ \E n \in 0..Len(FrameFor(frames, t)) :
                     db'[t] = db[t] \o SubSeq(FrameFor(frames, t), 1, n)

\* C6 amended: after any sequence of collection actions the three row sets
\* in session state are those of the most recent collection run that fetched
\* at least one record (all three from that run, nothing kept or merged from
\* another one; a run that fetched nothing leaves them as they were), and the
\* persistence action inserts exactly those row sets.
C6_SessionHoldsLastStoredRun ==
    []SessionHoldsLastStoredRun /\ [][InsertsLastStoredRun]_vars

\* Witness of C6: three collection runs, the last of which fetched nothing;
\* the session holds the row sets of the last run that fetched a record.
C6_Witness ==
    /\ hist.collections = 3
    /\ hist.last_fetch = <<>>
    /\ hist.stored_fetch # <<>>
    /\ HasData(session_state)
    /\ Held(session_state) = process_records(hist.stored_fetch)
    /\ Len(session_state["meta_df"]) = 1
    /\ session_state["color_df"] = <<>>

\* C7: when an insert fails, the inserts into other tables that completed
\* before it in the same attempt stay: their rows are in the database after
\* the attempt has reported the failure.
C7_NoCrossTableRollback ==
    [][(InsertStep /\ hist'.raised_at \in TableSet) =>
          /\ "error: Error inserting data" \in {ui'.shown[i] : i \in 1..Len(ui'.shown)}
          /\ \A t \in IssuedSet(hist') \ {hist'.raised_at} :
                db'[t] = db[t] \o FrameFor(Held(session_state), t)]_vars

\* Witness of C7: the insert into artifact_colors failed, and the rows of the
\* two inserts before it are in the database.
C7_Witness ==
    /\ hist.action = "insert"
    /\ hist.raised_at = "artifact_colors"
    /\ hist.issued = Tables
    /\ db["artifact_metadata"] = session_state["meta_df"]
    /\ db["artifact_media"] = session_state["media_df"]
    /\ db["artifact_metadata"] # <<>>
    /\ ui.shown[1] = "error: Error inserting data"

Before(t) == {Tables[i] : i \in {j \in 1..Len(Tables) : \E k \in (j + 1)..Len(Tables) : Tables[k] = t}}

\* C8 amended, which inserts are issued: the insert into a table is issued
\* if and only if its row set is non-empty, the connection was opened and no
\* insert before it in the attempt failed.
IssuedIffNonEmptyAndReached ==
    (hist.action = "insert" /\ HasData(session_state)) =>
        \A t \in TableSet :
            t \in IssuedSet(hist) <=>
                /\ FrameFor(Held(session_state), t) # <<>>
                /\ hist.raised_at \notin {"connect"} \cup Before(t)

\* C8 amended, the effect: an insert only appends rows to its table, and a
\* table no insert was issued for is left as it was.
InsertsOnlyAppend ==
    InsertStep =>
        \A t \in TableSet :
            /\ Len(db'[t]) >= Len(db[t])
            /\ SubSeq(db'[t], 1, Len(db[t])) = db[t]
            /\ t \notin IssuedSet(hist') => db'[t] = db[t]

C9_QueryErrorCaught ==
    ui.query = "query_error" =>
        /\ ui.ended = "completed"
        /\ \E i \in 1..Len(ui.shown) : ui.shown[i] = "error: query failed"

\* C10, the persistence action without collected data: it issues no insert,
\* leaves the database and the session state as they are and reports that no
\* data is available.
InsertWithoutDataDoesNothing ==
    (InsertStep /\ ~HasData(session_state)) =>
        /\ db' = db
        /\ session_state' = session_state
        /\ hist'.issued = <<>>
        /\ ui'.shown[1] = "error: No data available. Please collect data first in Tab 1."

\* C10, inserts only after a collection: an insert is issued, and the
\* database holds rows, only once a collection run has stored row sets.
InsertOnlyAfterCollection ==
    (hist.issued # <<>> \/ db # EmptyDb) =>
        /\ HasData(session_state)
        /\ hist.collections > 0
        /\ hist.stored_fetch # <<>>

\* C10: the persistence action taken while no collection has stored row sets
\* issues no insert, leaves database and session state unchanged and reports
\* 'No data available'; an insert only happens after a collection action has
\* stored row sets.
C10_NoInsertBeforeCollection ==
    []InsertOnlyAfterCollection /\ [][InsertWithoutDataDoesNothing]_vars

\* Witness of C10: two persistence attempts and an empty collection run in
\* an idle session: nothing inserted, the error reported.
C10_Witness ==
    /\ hist.action = "insert"
    /\ hist.runs = 3
    /\ hist.collections = 1
    /\ ~HasData(session_state)
    /\ db = EmptyDb
    /\ hist.issued = <<>>
    /\ ui.shown[1] = "error: No data available. Please collect data first in Tab 1."

====
